---- MODULE Spec2Model ----
(***************************************************************************)
(* Model of the asynchronous image downloader: main() schedules one        *)
(* download_image task per candidate URL behind an asyncio.Semaphore(10),  *)
(* awaits the batch with asyncio.gather, normalises every fetched file     *)
(* with process_image, then runs rename_files and deletes the .cache       *)
(* staging directory.                                                      *)
(*                                                                         *)
(* Task steps are the blocks of code between two suspension points of the  *)
(* coroutine (asyncio runs them without interleaving).                     *)
(*                                                                         *)
(* Spec is the whole run; FairSpec is the run on a large batch under a     *)
(* fair event loop; ResizeSpec is the resizing of process_image alone.     *)
(***************************************************************************)
EXTENDS Integers, Sequences, FiniteSets, TLC

----------------------------------------------------------------------------
(* Program constants *)

C == 10
MaxRetries == 3
MinFileSize == 2 * 1024
ChunkSize == 1024
TargetFormat == "jpg"
SkipDomains ==
    { <<"wallpaperflare.com">>, <<"healthjade.com">>, <<"specialtyproduce.com">> }
TargetWidth == 200
TargetHeight == 200

(* Bounds of the model *)

NumUrls == 1          \* candidate URLs of a small batch
GateUrls == 12        \* candidate URLs of a large batch (more than C)
NumStalled == 8       \* slow servers of a large batch
MaxFiles == 3         \* files (and modification times) of a directory found at the start
MaxSide == 6          \* width and height of a decoded image
MaxTarget == 4        \* --target_width and --target_height of a run that resizes
MaxRuns == 2          \* times process_image is run on one file

None == [none |-> TRUE]
NoFile == -1

----------------------------------------------------------------------------
(* URLs.  A URL is its prefix, its host (netloc) as a sequence of text     *)
(* pieces, its path and the extension os.path.splitext finds in the path.  *)

UData    == [prefix |-> "data:image/", host |-> <<>>, path |-> "image/png;base64,AAAA", ext |-> ""]
UBlocked == [prefix |-> "http", host |-> <<"cdn", ".", "wallpaperflare.com">>, path |-> "/a.jpg", ext |-> ".jpg"]
UJpg     == [prefix |-> "http", host |-> <<"img", ".", "example.org">>, path |-> "/a.jpg", ext |-> ".jpg"]
UPng     == [prefix |-> "http", host |-> <<"wallpaperflare.com", ".", "example.org">>, path |-> "/b.png", ext |-> ".png"]
ULogged  == [prefix |-> "http", host |-> <<"img", ".", "example.org">>, path |-> "/seen.jpg", ext |-> ".jpg"]
UBare    == [prefix |-> "http", host |-> <<"img", ".", "example.org">>, path |-> "", ext |-> ""]

Urls == {UData, UBlocked, UJpg, UPng, UBare, ULogged}

\* str.endswith on sequences of text pieces
EndsWith(s, suffix) ==
    /\ Len(suffix) <= Len(s)
    /\ SubSeq(s, Len(s) - Len(suffix) + 1, Len(s)) = suffix

\* faulty variant: only the data-URI test, the skip domains are forgotten
should_skip_data_only(url) == url.prefix = "data:image/"

should_skip(url) ==
    IF url.prefix = "data:image/"
    THEN TRUE
    ELSE \E skip_domain \in SkipDomains : EndsWith(url.host, skip_domain)

----------------------------------------------------------------------------
(* File names of the target directory: keyword_<n><ext> (kw = TRUE) or any *)
(* other stem (kw = FALSE).  A file is its name, byte size, modification   *)
(* time and the content it carries (src).                                  *)

KwName(n, ext) == [kw |-> TRUE, n |-> n, ext |-> ext]
OtherName(n, ext) == [kw |-> FALSE, n |-> n, ext |-> ext]

\* f.endswith(config.target_format)
HasTargetFormat(name) == name.ext = "." \o TargetFormat

Exists(d, name) == \E f \in d : f.name = name
FileAt(d, name) == CHOOSE f \in d : f.name = name
Remove(d, name) == {f \in d : f.name # name}

\* setup_environment: start_index from the files of the keyword already there
StartIndex(d) ==
    LET existing_files == {f \in d : f.name.kw /\ HasTargetFormat(f.name)}
    IN  IF existing_files # {} THEN Cardinality(existing_files) + 1 ELSE 1

----------------------------------------------------------------------------
(* rename_files *)

\* every order list.sort(key=getmtime) can leave the names in: ascending
\* modification time, files of equal time in the order os.listdir gave them
RECURSIVE Orders(_)
Orders(fs) ==
    IF fs = {} THEN { <<>> }
    ELSE LET first == {f \in fs : \A g \in fs : f.mtime <= g.mtime}
         IN  UNION { { <<f.name>> \o rest : rest \in Orders(fs \ {f}) } : f \in first }

\* faulty variant: no file is ever taken for a duplicate
DuplicatesNone(d, files, i, file_sizes) == {}

\* the duplicates set: every file whose size an earlier file of the list has
RECURSIVE Duplicates(_, _, _, _)
Duplicates(d, files, i, file_sizes) ==
    IF i > Len(files) THEN {}
    ELSE LET file_size == FileAt(d, files[i]).size
         IN  IF file_size \in file_sizes
             THEN {files[i]} \cup Duplicates(d, files, i + 1, file_sizes)
             ELSE Duplicates(d, files, i + 1, file_sizes \cup {file_size})

RemoveAll(d, names) == {f \in d : f.name \notin names}

FilterOut(files, names) == SelectSeq(files, LAMBDA n : n \notin names)

\* one pass of the renaming loop body, from position index on
OverwriteExisting(d, new_name) == Remove(d, new_name)

RECURSIVE RenameLoop(_, _, _)
RenameLoop(d, files, index) ==
    IF index > Len(files) THEN d
    ELSE LET old_name == files[index]
             new_name == KwName(index, "." \o TargetFormat)
         IN  IF old_name = new_name
             THEN RenameLoop(d, files, index + 1)
             ELSE LET d1 == IF Exists(d, new_name) THEN OverwriteExisting(d, new_name) ELSE d
                  IN  IF ~Exists(d1, old_name)
                      THEN d1      \* os.rename raises, the except clause ends the pass
                      ELSE LET f == FileAt(d1, old_name)
                           IN  RenameLoop((d1 \ {f}) \cup {[f EXCEPT !.name = new_name]},
                                          files, index + 1)

\* the directory rename_files leaves, for one order of the sort
rename_files(d, files) ==
    LET duplicates == Duplicates(d, files, 1, {})
    IN  RenameLoop(RemoveAll(d, duplicates), FilterOut(files, duplicates), 1)

TargetFiles(d) == {f \in d : HasTargetFormat(f.name)}

----------------------------------------------------------------------------
(* State *)

VARIABLES
    urls,             \* img_urls, the candidate URLs (positions 1..Len; ordinal = position - 1)
    ledger,           \* the URLs downloaded_urls.log holds
    server,           \* what the host of each URL may answer (the environment)
    stalled,          \* positions whose server answers only when the network is quiet
    start_index,      \* setup_environment's start_index
    mainpc,           \* where main() is
    tasks,            \* the tasks list: positions of the scheduled URLs
    pc,               \* where each download_image task is
    retry,            \* the loop variable of each task
    result,           \* what each task returned
    sem,              \* semaphore._value
    waiters,          \* semaphore._waiters
    temp,             \* size of each .cache/temp_<n>.tmp, NoFile when absent
    left,             \* bytes of the response body not yet read
    dir,              \* the files of save_folder
    cache,            \* whether save_folder/.cache exists
    now,              \* file system clock
    downloaded_files, \* what asyncio.gather returned
    valid_files,      \* the non-None entries of downloaded_files
    next,             \* position of the for loop over valid_files
    requests,         \* history: session.get calls of each task
    via,              \* history: what came right before the latest session.get of each task
    staged,           \* history: whether each task ever opened its temp file
    writer,           \* history: the task that last opened each temp path for writing
    created,          \* history: files each task put into save_folder
    processed,        \* history: the paths process_image was called with
    before,           \* history: save_folder as rename_files found it
    config,           \* config.target_width and config.target_height
    img,              \* img.size of the image process_image has open (None: no image)
    saved,            \* size of the image img.save wrote (None: nothing saved)
    imgpc,            \* where process_image is with that image
    runs              \* times process_image was run on the file

envVars  == <<urls, ledger, server, stalled, start_index>>
gateVars == <<sem, waiters>>
taskVars == <<pc, retry, result, temp, left>>
histVars == <<requests, via, staged, writer, created>>
mainVars == <<mainpc, tasks, downloaded_files, valid_files, next, processed, before>>
fsVars   == <<dir, cache, now>>
imgVars  == <<config, img, saved, imgpc, runs>>
vars == <<envVars, gateVars, taskVars, histVars, mainVars, fsVars, imgVars>>

Positions == 1..Len(urls)
Ordinal(i) == i - 1

\* faulty variant: the temp file is named after the URL's extension
TempPathByExt(i) == urls[i].ext

\* temp_filename = f"temp_{downloaded_count}.tmp": the path is the number in it
TempPath(i) == Ordinal(i)

\* the temp paths of a batch
TempPaths == {TempPath(i) : i \in Positions}

BodySizes == {MinFileSize - 1, MinFileSize}
EncodedSizes == {MinFileSize - 548, MinFileSize}

AnyServer == [req |-> {"exc", "status", "ok"}, bodies |-> BodySizes, drop |-> TRUE, fserr |-> TRUE]
Refuser   == [req |-> {"status"}, bodies |-> {}, drop |-> FALSE, fserr |-> FALSE]

----------------------------------------------------------------------------
(* The semaphore (async with semaphore) *)

\* faulty variant: the semaphore never makes a task wait
CanAcquireAlways == TRUE

\* Semaphore.locked() is false
CanAcquire == sem > 0 /\ waiters = <<>>

\* faulty variant: the slot is not given back
ReleaseGateKeeps(s, w) == [sem |-> s, waiters |-> w, woken |-> {}]

\* faulty variant: the release wakes no waiter
ReleaseGateNoWake(s, w) == [sem |-> s + 1, waiters |-> w, woken |-> {}]

\* Semaphore.release() on value s and waiters w: the first waiter, if any,
\* is handed the slot
ReleaseGate(s, w) ==
    IF w # <<>>
    THEN [sem |-> s, waiters |-> Tail(w), woken |-> {Head(w)}]
    ELSE [sem |-> s + 1, waiters |-> w, woken |-> {}]

GatedPcs == {"woken", "request", "stream", "settle", "backoff"}
Holders == {i \in Positions : pc[i] \in GatedPcs}

----------------------------------------------------------------------------
(* The event loop: every task runs to its first suspension, in creation    *)
(* order, before any awaited event is delivered; a stalled server's events *)
(* are delivered only when nothing else is pending.                        *)

Launched == \A j \in Positions : pc[j] # "start"

Runnable(i) ==
    /\ mainpc = "gather"
    /\ Launched
    /\ i \in stalled =>
          \A j \in Positions \ {i} : pc[j] \in GatedPcs => (j \in stalled /\ j > i)

----------------------------------------------------------------------------
(* download_image, block by block *)

\* the task returns res: the async with block releases the semaphore, which
\* has value s and waiters w
Resolve(i, s, w, res) ==
    LET r == ReleaseGate(s, w)
    IN  /\ sem' = r.sem
        /\ waiters' = r.waiters
        /\ pc' = [j \in Positions |->
                    IF j = i THEN "done" ELSE IF j \in r.woken THEN "woken" ELSE pc[j]]
        /\ result' = [result EXCEPT ![i] = res]
        /\ retry' = [retry EXCEPT ![i] = 0]

\* session.get is called for iteration r of the retry loop
Attempt(i, r, cause) ==
    /\ pc' = [pc EXCEPT ![i] = "request"]
    /\ retry' = [retry EXCEPT ![i] = r]
    /\ requests' = [requests EXCEPT ![i] = @ + 1]
    /\ via' = [via EXCEPT ![i] = cause]
    /\ UNCHANGED result

\* for retry in range(max_retries): is there an iteration after iteration r
LoopHasNext(r) == r + 1 < MaxRetries

\* the end of an iteration that did not return: the next one, or return None
NextIteration(i, cause) ==
    IF LoopHasNext(retry[i])
    THEN Attempt(i, retry[i] + 1, cause) /\ UNCHANGED gateVars
    ELSE Resolve(i, sem, waiters, None) /\ UNCHANGED <<requests, via>>

\* faulty variant: the sleep follows every failed attempt, the last included
SleepsAlways(r) == TRUE

\* except Exception: ... if retry < max_retries - 1: await asyncio.sleep(2)
SleepsAfterError(r) == r < MaxRetries - 1

\* faulty variant: the finally clause leaves the temp file
FinallyKeeps(t) == t

\* finally: if os.path.exists(temp_path): os.remove(temp_path)
FinallyTemp(t) == NoFile

\* the except clause of iteration retry[i]; the finally clause runs after it
Except(i) ==
    IF SleepsAfterError(retry[i])
    THEN /\ pc' = [pc EXCEPT ![i] = "backoff"]
         /\ UNCHANGED <<gateVars, result, retry, requests, via, temp>>
    ELSE /\ temp' = [temp EXCEPT ![TempPath(i)] = FinallyTemp(@)]
         /\ NextIteration(i, "exc")

\* from the entry of the gated block (semaphore value s, waiters w) to the
\* first suspension
Enter(i, s, w) ==
    IF should_skip(urls[i])
    THEN /\ Resolve(i, s, w, None)
         /\ UNCHANGED <<requests, via, cache>>
    ELSE /\ cache' = TRUE
         /\ sem' = s
         /\ waiters' = w
         /\ Attempt(i, 0, "start")

FinalPath(i) == KwName(start_index + Ordinal(i), urls[i].ext)

\* the task starts: async with semaphore
Launch(i) ==
    /\ mainpc = "gather"
    /\ pc[i] = "start"
    /\ \A j \in Positions : j < i => pc[j] # "start"
    /\ IF CanAcquire
       THEN Enter(i, sem - 1, waiters)
       ELSE /\ waiters' = Append(waiters, i)
            /\ pc' = [pc EXCEPT ![i] = "acquire"]
            /\ UNCHANGED <<sem, result, retry, requests, via, cache>>
    /\ UNCHANGED <<envVars, imgVars, temp, left, staged, writer, created, mainVars, dir, now>>

\* a waiter that was handed a slot runs
Resume(i) ==
    /\ pc[i] = "woken"
    /\ Runnable(i)
    /\ Enter(i, sem, waiters)
    /\ UNCHANGED <<envVars, imgVars, temp, left, staged, writer, created, mainVars, dir, now>>

\* session.get raises (timeout, connection error)
RequestFails(i) ==
    /\ pc[i] = "request"
    /\ Runnable(i)
    /\ "exc" \in server[i].req
    /\ Except(i)
    /\ UNCHANGED <<envVars, imgVars, left, staged, writer, created, mainVars, fsVars>>

\* response.status is not 200: a warning, and the iteration ends
RequestRefused(i) ==
    /\ pc[i] = "request"
    /\ Runnable(i)
    /\ "status" \in server[i].req
    /\ temp' = [temp EXCEPT ![TempPath(i)] = FinallyTemp(@)]
    /\ NextIteration(i, "status")
    /\ UNCHANGED <<envVars, imgVars, left, staged, writer, created, mainVars, fsVars>>

\* response.status is 200: aiofiles.open(temp_path, 'wb')
ResponseOk(i) ==
    /\ pc[i] = "request"
    /\ Runnable(i)
    /\ "ok" \in server[i].req
    /\ \E body \in server[i].bodies : left' = [left EXCEPT ![i] = body]
    /\ temp' = [temp EXCEPT ![TempPath(i)] = 0]
    /\ staged' = [staged EXCEPT ![i] = TRUE]
    /\ writer' = [writer EXCEPT ![TempPath(i)] = i]
    /\ pc' = [pc EXCEPT ![i] = "stream"]
    /\ UNCHANGED <<envVars, imgVars, gateVars, retry, result, requests, via,
                   created, mainVars, fsVars>>

Min(a, b) == IF a < b THEN a ELSE b

\* chunk = await response.content.read(1024); await f.write(chunk)
ReadChunk(i) ==
    /\ pc[i] = "stream"
    /\ Runnable(i)
    /\ left[i] > 0
    /\ temp' = [temp EXCEPT ![TempPath(i)] = @ + Min(ChunkSize, left[i])]
    /\ left' = [left EXCEPT ![i] = @ - Min(ChunkSize, left[i])]
    /\ UNCHANGED <<envVars, imgVars, gateVars, pc, retry, result, histVars, mainVars, fsVars>>

\* the read returns no chunk: the file is closed, await asyncio.sleep(0.1)
EndOfBody(i) ==
    /\ pc[i] = "stream"
    /\ Runnable(i)
    /\ left[i] = 0
    /\ pc' = [pc EXCEPT ![i] = "settle"]
    /\ UNCHANGED <<envVars, imgVars, gateVars, retry, result, temp, left, histVars, mainVars, fsVars>>

\* a read or a write raises while the body is streamed
StreamFails(i) ==
    /\ pc[i] = "stream"
    /\ Runnable(i)
    /\ server[i].drop
    /\ Except(i)
    /\ left' = [left EXCEPT ![i] = 0]
    /\ UNCHANGED <<envVars, imgVars, staged, writer, created, mainVars, fsVars>>

\* faulty variant: the threshold is one byte too low
LargeEnoughOffByOne(file_size) == file_size >= MinFileSize - 1

\* if file_size >= config.min_file_size
LargeEnough(file_size) == file_size >= MinFileSize

\* faulty variant: the old file is removed but the rename puts nothing there
PromoteLost(d, final_path, file_size, stamp, i) == Remove(d, final_path)

\* if os.path.exists(final_path): os.remove(final_path)
\* os.rename(temp_path, final_path)
\* (the 0.1 sleeps end in the order the bodies ended, so the order of the
\* promotions is the order of the files' modification times)
Promote(d, final_path, file_size, stamp, i) ==
    Remove(d, final_path) \cup
        {[name |-> final_path, size |-> file_size, mtime |-> stamp, src |-> i]}

\* after the 0.1 sleep: the size check, and the promotion or the rejection
Settle(i) ==
    /\ pc[i] = "settle"
    /\ Runnable(i)
    /\ IF LargeEnough(temp[TempPath(i)])
       THEN IF urls[i].path = ""
            THEN /\ temp' = [temp EXCEPT ![TempPath(i)] = FinallyTemp(@)]
                 /\ Resolve(i, sem, waiters, None)
                 /\ UNCHANGED <<requests, via, dir, created, now>>
            ELSE /\ dir' = Promote(dir, FinalPath(i), temp[TempPath(i)], now, i)
                 /\ now' = now + 1
                 /\ temp' = [temp EXCEPT ![TempPath(i)] = NoFile]
                 /\ created' = [created EXCEPT ![i] = @ + 1]
                 /\ Resolve(i, sem, waiters, FinalPath(i))
                 /\ UNCHANGED <<requests, via>>
       ELSE /\ temp' = [temp EXCEPT ![TempPath(i)] = FinallyTemp(@)]
            /\ NextIteration(i, "small")
            /\ UNCHANGED <<dir, created, now>>
    /\ UNCHANGED <<envVars, imgVars, left, staged, writer, mainVars, cache>>

\* os.remove(final_path) or os.rename(temp_path, final_path) raises
PromoteFails(i) ==
    /\ pc[i] = "settle"
    /\ Runnable(i)
    /\ server[i].fserr
    /\ LargeEnough(temp[TempPath(i)])
    /\ urls[i].path # ""
    /\ Except(i)
    /\ UNCHANGED <<envVars, imgVars, left, staged, writer, created, mainVars, fsVars>>

\* asyncio.sleep(2) is over: the finally clause, then the next iteration
BackoffOver(i) ==
    /\ pc[i] = "backoff"
    /\ Runnable(i)
    /\ temp' = [temp EXCEPT ![TempPath(i)] = FinallyTemp(@)]
    /\ NextIteration(i, "backoff")
    /\ UNCHANGED <<envVars, imgVars, left, staged, writer, created, mainVars, fsVars>>

----------------------------------------------------------------------------
(* main *)

\* the URLs the scheduling loop makes a task for: those the ledger lacks
RECURSIVE ScheduleFrom(_)
ScheduleFrom(index) ==
    IF index > Len(urls) THEN <<>>
    ELSE IF urls[index] \in ledger
         THEN ScheduleFrom(index + 1)
         ELSE <<index>> \o ScheduleFrom(index + 1)

\* for index, img_url in enumerate(img_urls): ... asyncio.create_task(...)
Schedule ==
    /\ mainpc = "schedule"
    /\ tasks' = ScheduleFrom(1)
    /\ pc' = [i \in Positions |-> IF urls[i] \in ledger THEN "unscheduled" ELSE "start"]
    /\ mainpc' = "gather"
    /\ UNCHANGED <<envVars, imgVars, gateVars, retry, result, temp, left, histVars,
                   downloaded_files, valid_files, next, processed, before, fsVars>>

\* faulty variant: the wait ends with the first task that is done
SomeResolved == \E k \in 1..Len(tasks) : pc[tasks[k]] = "done"

\* asyncio.gather(*tasks) returns once every task is done
AllResolved == \A k \in 1..Len(tasks) : pc[tasks[k]] = "done"

\* faulty variant: the results come back in reverse order
GatherReversed == [k \in 1..Len(tasks) |-> result[tasks[Len(tasks) + 1 - k]]]

\* the list gather returns: the results in the order of the tasks list
GatherResults == [k \in 1..Len(tasks) |-> result[tasks[k]]]

GatherDone ==
    /\ mainpc = "gather"
    /\ Launched
    /\ AllResolved
    /\ downloaded_files' = GatherResults
    /\ valid_files' = SelectSeq(GatherResults, LAMBDA file : file # None)
    /\ next' = 1
    /\ mainpc' = "normalize"
    /\ UNCHANGED <<envVars, imgVars, gateVars, taskVars, histVars, tasks, processed, before, fsVars>>

\* os.path.splitext(file_path)[0] + '.' + config.target_format
NewFilePath(file_path) == [file_path EXCEPT !.ext = "." \o TargetFormat]

\* process_image(file_path, config) on directory d: raises is whether the
\* decoder or the encoder raises, new_size the size of the file saved otherwise
process_image(d, file_path, raises, new_size, stamp) ==
    IF ~Exists(d, file_path) \/ raises
    THEN d
    ELSE IF FileAt(d, file_path).size < MinFileSize
         THEN Remove(d, file_path)
         ELSE Remove(Remove(d, file_path), NewFilePath(file_path)) \cup
                {[name |-> NewFilePath(file_path), size |-> new_size,
                  mtime |-> stamp, src |-> FileAt(d, file_path).src]}

ProcessImage ==
    /\ mainpc = "normalize"
    /\ next <= Len(valid_files)
    /\ \E raises \in BOOLEAN, new_size \in EncodedSizes :
          dir' = process_image(dir, valid_files[next], raises, new_size, now)
    /\ now' = now + 1
    /\ processed' = Append(processed, valid_files[next])
    /\ next' = next + 1
    /\ UNCHANGED <<envVars, imgVars, gateVars, taskVars, histVars, mainpc, tasks,
                   downloaded_files, valid_files, before, cache>>

\* faulty variant: the loop over valid_files stops after its first file
NormalizeOverEarly == next > 1 \/ next > Len(valid_files)

\* rename_files(save_folder, config), once the loop over valid_files is over
NormalizeOver == next > Len(valid_files)

RenameFiles ==
    /\ mainpc = "normalize"
    /\ NormalizeOver
    /\ \E files \in Orders(TargetFiles(dir)) : dir' = rename_files(dir, files)
    /\ before' = dir
    /\ mainpc' = "cleanup"
    /\ UNCHANGED <<envVars, imgVars, gateVars, taskVars, histVars, tasks, downloaded_files,
                   valid_files, next, processed, cache, now>>

\* if os.path.exists(cache_folder): shutil.rmtree(cache_folder)
Cleanup ==
    /\ mainpc = "cleanup"
    /\ cache' = FALSE
    /\ temp' = [p \in TempPaths |-> NoFile]
    /\ mainpc' = "done"
    /\ UNCHANGED <<envVars, imgVars, gateVars, pc, retry, result, left, histVars, tasks,
                   downloaded_files, valid_files, next, processed, before, dir, now>>

----------------------------------------------------------------------------
(* process_image: the resizing.  A size is a record of width and height.    *)
(* The ratio is kept as a fraction <<numerator, denominator>>; int() of the *)
(* product x * ratio is the floor of the exact product (for the sides and   *)
(* the target boxes of the model the double product Python computes has     *)
(* that same floor).                                                        *)

\* ratio = min(config.target_width / width, config.target_height / height)
ratio(c, size) ==
    IF c.target_width * size.height <= c.target_height * size.width
    THEN <<c.target_width, size.width>>
    ELSE <<c.target_height, size.height>>

\* int(x * ratio)
Truncated(x, r) == (x * r[1]) \div r[2]

\* (new_width, new_height)
NewSize(c, size) ==
    [width  |-> Truncated(size.width, ratio(c, size)),
     height |-> Truncated(size.height, ratio(c, size))]

\* img.resize raises ValueError("height and width must be > 0")
ResizeRaises(size) == size.width < 1 \/ size.height < 1

\* img.resize and img.save succeed: the file holds the resized image
ResizeAndSave ==
    /\ imgpc = "open"
    /\ ~ResizeRaises(NewSize(config, img))
    /\ saved' = NewSize(config, img)
    /\ imgpc' = "saved"
    /\ UNCHANGED <<config, img, runs>>
    /\ UNCHANGED <<envVars, gateVars, taskVars, histVars, mainVars, fsVars>>

\* img.resize raises: the except clause returns False, the file stays as it was
ResizeFails ==
    /\ imgpc = "open"
    /\ ResizeRaises(NewSize(config, img))
    /\ imgpc' = "failed"
    /\ UNCHANGED <<config, img, saved, runs>>
    /\ UNCHANGED <<envVars, gateVars, taskVars, histVars, mainVars, fsVars>>

\* process_image is run again, on the file it saved
Reopen ==
    /\ imgpc = "saved"
    /\ runs < MaxRuns
    /\ img' = saved
    /\ saved' = None
    /\ imgpc' = "open"
    /\ runs' = runs + 1
    /\ UNCHANGED config
    /\ UNCHANGED <<envVars, gateVars, taskVars, histVars, mainVars, fsVars>>

----------------------------------------------------------------------------
(* Specifications *)

PriorFile == [name |-> KwName(1, ".jpg"), size |-> MinFileSize + 1, mtime |-> 0, src |-> 0]

InitTasks ==
    /\ mainpc = "schedule"
    /\ tasks = <<>>
    /\ pc = [i \in Positions |-> "new"]
    /\ retry = [i \in Positions |-> 0]
    /\ result = [i \in Positions |-> None]
    /\ sem = C
    /\ waiters = <<>>
    /\ temp = [p \in TempPaths |-> NoFile]
    /\ left = [i \in Positions |-> 0]
    /\ cache = FALSE
    /\ now = 1
    /\ downloaded_files = <<>>
    /\ valid_files = <<>>
    /\ next = 1
    /\ requests = [i \in Positions |-> 0]
    /\ via = [i \in Positions |-> "none"]
    /\ staged = [i \in Positions |-> FALSE]
    /\ writer = [p \in TempPaths |-> 0]
    /\ created = [i \in Positions |-> 0]
    /\ processed = <<>>
    /\ before = {}

\* a small batch: NumUrls candidate URLs of any kind, servers that may answer
\* anything, a directory a prior run left a file in
InitSmall ==
    /\ urls \in [1..NumUrls -> Urls]
    /\ ledger = {ULogged}
    /\ server = [i \in 1..NumUrls |-> AnyServer]
    /\ stalled = {}
    /\ dir = {PriorFile}

\* a large batch: more candidate URLs than semaphore slots; a URL of any kind
\* and an image URL, then NumStalled image URLs served by slow hosts that
\* refuse and one served by a host that refuses at once, the rest are of a
\* blocked domain
InitLarge ==
    /\ \E u \in Urls :
          urls = [i \in 1..GateUrls |->
                    IF i = 1 THEN u
                    ELSE IF i <= NumStalled + 3 THEN UJpg
                    ELSE UBlocked]
    /\ ledger = {ULogged}
    /\ server = [i \in 1..GateUrls |->
                    IF i \in 3..(NumStalled + 3) THEN Refuser ELSE AnyServer]
    /\ stalled = 3..(NumStalled + 2)
    /\ dir = {PriorFile}

\* the names a directory found at the start may hold
FoundNames ==
    << KwName(1, ".jpg"), KwName(2, ".jpg"), KwName(3, ".jpg"), KwName(4, ".jpg"),
       OtherName(1, ".jpg"), KwName(1, ".png") >>

FoundSizes == {MinFileSize, MinFileSize + 1}

\* a directory of the files ks, with the sizes and modification times a
FoundDir(ks, a) ==
    {[name |-> FoundNames[k], size |-> a[k][1], mtime |-> a[k][2], src |-> 0 - k] : k \in ks}

\* no candidate URL at all: the run only tidies the directory it finds, which
\* holds at most MaxFiles files of any sizes and modification times
InitEmpty ==
    /\ urls = <<>>
    /\ ledger = {}
    /\ server = <<>>
    /\ stalled = {}
    /\ \E ks \in SUBSET (1..Len(FoundNames)) :
          /\ Cardinality(ks) <= MaxFiles
          /\ \E a \in [ks -> FoundSizes \X (1..MaxFiles)] : dir = FoundDir(ks, a)

\* the resizing of process_image is followed on its own (ResizeSpec): here
\* no image is under study and the target box is the default one
NoImage ==
    /\ config = [target_width |-> TargetWidth, target_height |-> TargetHeight]
    /\ img = None
    /\ saved = None
    /\ imgpc = "idle"
    /\ runs = 0

Init ==
    /\ InitSmall \/ InitLarge \/ InitEmpty
    /\ start_index = StartIndex(dir)
    /\ InitTasks
    /\ NoImage

Next ==
    \/ Schedule
    \/ \E i \in Positions : Launch(i)
    \/ \E i \in Positions : Resume(i)
    \/ \E i \in Positions : RequestFails(i)
    \/ \E i \in Positions : RequestRefused(i)
    \/ \E i \in Positions : ResponseOk(i)
    \/ \E i \in Positions : ReadChunk(i)
    \/ \E i \in Positions : EndOfBody(i)
    \/ \E i \in Positions : StreamFails(i)
    \/ \E i \in Positions : Settle(i)
    \/ \E i \in Positions : PromoteFails(i)
    \/ \E i \in Positions : BackoffOver(i)
    \/ GatherDone
    \/ ProcessImage
    \/ RenameFiles
    \/ Cleanup

Spec == Init /\ [][Next]_vars

\* a run on a large batch
LargeBatch ==
    /\ InitLarge
    /\ start_index = StartIndex(dir)
    /\ InitTasks
    /\ NoImage

\* the runs on a large batch in which the event loop runs a callback whenever
\* one is ready, and every awaited request, read and sleep ends (session.get
\* has timeout=15)
FairSpec == LargeBatch /\ [][Next]_vars /\ WF_vars(Next)

\* process_image on one decoded image of any size up to MaxSide x MaxSide,
\* with any target box up to MaxTarget x MaxTarget (--target_width,
\* --target_height); nothing else of the program runs
ResizeInit ==
    /\ urls = <<>>
    /\ ledger = {}
    /\ server = <<>>
    /\ stalled = {}
    /\ dir = {}
    /\ start_index = StartIndex(dir)
    /\ InitTasks
    /\ config \in [target_width : 1..MaxTarget, target_height : 1..MaxTarget]
    /\ img \in [width : 1..MaxSide, height : 1..MaxSide]
    /\ saved = None
    /\ imgpc = "open"
    /\ runs = 1

ResizeNext ==
    \/ ResizeAndSave
    \/ ResizeFails
    \/ Reopen

ResizeSpec == ResizeInit /\ [][ResizeNext]_vars

\* what task i can do once it holds a slot
TaskStep(i) ==
    \/ Resume(i)
    \/ RequestFails(i)
    \/ RequestRefused(i)
    \/ ResponseOk(i)
    \/ ReadChunk(i)
    \/ EndOfBody(i)
    \/ StreamFails(i)
    \/ Settle(i)
    \/ PromoteFails(i)
    \/ BackoffOver(i)

----------------------------------------------------------------------------
(* Properties *)

Fetching == mainpc \in {"schedule", "gather"}
Renamed == mainpc \in {"cleanup", "done"}

\* C1: at every instant at most C = 10 download_image tasks are between the
\* acquisition and the release of the semaphore
C1_AtMostCInFlight == Cardinality(Holders) <= 10

\* C1 witness: all ten slots are taken while another task waits for one
C1_Witness ==
    /\ Cardinality(Holders) = 10
    /\ \E i \in Positions : pc[i] = "acquire"
    /\ \E i \in Positions : pc[i] = "backoff"

\* the positions of the URLs the ledger lacks, in input order
RECURSIVE Ascending(_)
Ascending(S) ==
    IF S = {} THEN <<>>
    ELSE LET m == CHOOSE x \in S : \A y \in S : x <= y
         IN  <<m>> \o Ascending(S \ {m})

NotLogged == Ascending({i \in Positions : urls[i] \notin ledger})

\* C2 as stated: gather returns one entry per candidate URL, entry i being
\* the outcome of the task for URL i
C2_OnePerCandidate ==
    ~Fetching =>
        /\ Len(downloaded_files) = Len(urls)
        /\ \A i \in Positions : downloaded_files[i] = result[i]

\* C2 amended: gather returns one entry per candidate URL that the ledger does
\* not hold, in input order, entry k being the outcome of the task for the
\* k-th such URL (a path numbered by that URL's ordinal, or none)
C2_OnePerScheduled ==
    ~Fetching =>
        /\ Len(downloaded_files) = Len(NotLogged)
        /\ \A k \in 1..Len(NotLogged) :
              /\ downloaded_files[k] = result[NotLogged[k]]
              /\ downloaded_files[k] # None =>
                    downloaded_files[k] =
                        KwName(start_index + NotLogged[k] - 1, urls[NotLogged[k]].ext)

\* C2 witness: gather has returned two paths of which the second task's file
\* was promoted first
C2_Witness ==
    /\ mainpc = "normalize"
    /\ next = 1
    /\ \E f, g \in dir : f.src > 0 /\ g.src > f.src /\ g.mtime < f.mtime
    /\ \E k \in 1..Len(downloaded_files) : downloaded_files[k] = None

\* C3: a task makes at most 3 requests, sleeps the backoff only when another
\* attempt is left, and the end of a backoff sleep is the next request
C3_BoundedRetries ==
    /\ [](\A i \in Positions :
            /\ requests[i] <= 3
            /\ pc[i] = "backoff" => requests[i] < 3)
    /\ [][\A i \in Positions :
            (pc[i] = "backoff" /\ pc'[i] # "backoff") =>
                (pc'[i] = "request" /\ requests'[i] = requests[i] + 1)]_vars

\* C3 witness: a task has resolved to none after a third request that
\* followed a backoff
C3_Witness ==
    \E i \in Positions :
        pc[i] = "done" /\ requests[i] = 3 /\ via[i] = "backoff" /\ result[i] = None

\* C4: an attempt whose staged file is below min_file_size deletes the temp
\* file and puts no file into the target directory
C4_SmallNeverPromoted ==
    [][\A i \in Positions :
         (pc[i] = "settle" /\ pc'[i] # "settle" /\ temp[TempPath(i)] < MinFileSize) =>
             (temp'[TempPath(i)] = NoFile /\ dir' = dir /\ created'[i] = created[i])]_vars

\* C4 witness: a task is past a size rejection, its temp file gone
C4_Witness ==
    \E i \in Positions : via[i] = "small" /\ temp[TempPath(i)] = NoFile /\ created[i] = 0

\* C5: a resolved task has no temp file, and none is left once the batch is
\* complete
C5_NoTempOutlivesTask ==
    /\ \A i \in Positions : pc[i] = "done" => temp[TempPath(i)] = NoFile
    /\ ~Fetching => \A i \in Positions : temp[TempPath(i)] = NoFile

\* C5 witness: the batch is complete and holds a task that staged a file and
\* resolved to none after three requests, and one that promoted its file
C5_Witness ==
    /\ mainpc = "normalize"
    /\ \E i \in Positions : staged[i] /\ result[i] = None /\ requests[i] = 3
    /\ \E i \in Positions : result[i] # None

\* C6: a task creates at most one file in the target directory; one that
\* returned a path created exactly one, which is at that path when the task
\* returns (and until the batch is complete) while its temp file is gone; one
\* that returned none created no file
C6_OneFinalFile ==
    \A i \in Positions :
        /\ created[i] <= 1
        /\ (pc[i] = "done" /\ result[i] # None) =>
              /\ created[i] = 1
              /\ temp[TempPath(i)] = NoFile
              /\ mainpc = "gather" =>
                    \E f \in dir : f.name = result[i] /\ f.src = i
        /\ (pc[i] = "done" /\ result[i] = None) => created[i] = 0

\* C6 witness: while the batch runs, one task has returned a path and another
\* has returned none after a request
C6_Witness ==
    /\ mainpc = "gather"
    /\ \E i \in Positions : pc[i] = "done" /\ result[i] # None
    /\ \E i \in Positions : pc[i] = "done" /\ result[i] = None /\ requests[i] > 0

\* the skip policy: a data-URI, or a host that ends with a skip domain
SkipPolicy(url) ==
    \/ url.prefix = "data:image/"
    \/ \E skip_domain \in SkipDomains : EndsWith(url.host, skip_domain)

\* C7: for a URL the skip policy rejects the task issues no request, creates
\* no temp or final file and returns none
C7_SkippedDoesNothing ==
    \A i \in Positions :
        SkipPolicy(urls[i]) =>
            /\ requests[i] = 0
            /\ ~staged[i]
            /\ temp[TempPath(i)] = NoFile
            /\ created[i] = 0
            /\ result[i] = None
            /\ pc[i] \notin {"request", "stream", "settle", "backoff"}

\* C7 witness: in one batch a task for a data-URI and a task for a blocked
\* host have resolved
C7_Witness ==
    \E i, j \in Positions :
        /\ urls[i] = UData /\ pc[i] = "done"
        /\ urls[j] = UBlocked /\ pc[j] = "done"

\* C8 as stated: after rename_files the target-format files are named exactly
\* keyword_1.ext .. keyword_N.ext, N being their number
C8_ContiguousNames ==
    Renamed =>
        {f.name : f \in TargetFiles(dir)} =
            {KwName(k, ".jpg") : k \in 1..Cardinality(TargetFiles(dir))}

\* C9: after rename_files no two target-format files have the same size
C9_DistinctSizes ==
    Renamed =>
        \A f, g \in TargetFiles(dir) : f.name # g.name => f.size # g.size

\* C9 witness: rename_files has run on a directory that held two
\* target-format files of one size and a third of another
C9_Witness ==
    /\ Renamed
    /\ \E f, g, h \in TargetFiles(before) :
          f.name # g.name /\ f.size = g.size /\ h.size # f.size

\* C10: process_image is called only when every scheduled task has resolved,
\* rename_files starts only when process_image has been called on every
\* non-none result, and .cache is deleted only after rename_files
C10_StagesInSequence ==
    [][/\ processed' # processed =>
             \A i \in Positions : pc[i] \in {"done", "unscheduled"}
       /\ (~Renamed /\ Renamed') =>
             /\ \A i \in Positions : pc[i] \in {"done", "unscheduled"}
             /\ processed = SelectSeq([i \in Positions |-> result[i]],
                                      LAMBDA file : file # None)
       /\ (cache /\ ~cache') => Renamed]_vars

\* C10 witness: the run is over; a task exhausted its retries, a file was
\* normalized and .cache, once made, is deleted
C10_Witness ==
    /\ mainpc = "done"
    /\ ~cache
    /\ Len(processed) >= 1
    /\ \E i \in Positions : result[i] = None /\ requests[i] = 3

\* a step in which task i fails an attempt: it starts the backoff sleep, or
\* it goes on to the next request, or it returns none
FailedStep(i) ==
    /\ pc[i] \in {"request", "stream", "settle", "backoff"}
    /\ \/ pc'[i] = "backoff" /\ pc[i] # "backoff"
       \/ pc'[i] = "request" /\ requests'[i] = requests[i] + 1
       \/ pc'[i] = "done" /\ result'[i] = None

\* C11: no failure of one item ends the batch: a task whose attempt fails goes
\* on or returns none, leaving main in its wait and every other task where it
\* was (but for the waiter handed its slot); a process_image call that fails
\* changes nothing and the loop goes on; normalization starts only when every
\* scheduled task has resolved, and rename_files only when every non-none
\* result has been given to process_image
C11_FailuresStayLocal ==
    /\ [](/\ ~Fetching => \A k \in 1..Len(tasks) : pc[tasks[k]] = "done"
          /\ Renamed => processed = valid_files
          /\ \A i \in Positions :
                pc[i] = "done" => (result[i] = None \/ created[i] = 1))
    /\ [][/\ \A i \in Positions :
              FailedStep(i) =>
                  /\ mainpc' = "gather"
                  /\ \A j \in Positions \ {i} :
                        \/ pc'[j] = pc[j]
                        \/ pc[j] = "acquire" /\ pc'[j] = "woken"
          /\ (processed' # processed) =>
                  (/\ mainpc' = "normalize"
                   /\ next' = next + 1
                   /\ processed' = Append(processed, valid_files[next]))]_vars

\* C11 witness: the run is over; one task failed three attempts by
\* exceptions and another fetched a .png file on which process_image failed
\* (the file is still there)
C11_Witness ==
    /\ mainpc = "done"
    /\ \E i \in Positions :
          requests[i] = 3 /\ via[i] = "backoff" /\ result[i] = None
    /\ \E j \in Positions :
          /\ result[j] # None
          /\ result[j].ext = ".png"
          /\ \E f \in dir : f.name = result[j] /\ f.src = j
    /\ Len(processed) >= 1

\* C12: under FairSpec the batch completes, with every scheduled task done
\* and no task left waiting for the semaphore, also with more URLs than
\* slots; while the batch runs, a task that holds a slot and is served by a
\* host that is not slow can always take its next step, whatever the other
\* tasks (sleeping in a backoff, stalled, waiting) are doing
C12_BatchCompletes ==
    /\ <>[](~Fetching /\ AllResolved /\ waiters = <<>>)
    /\ [](\A i \in Positions \ stalled :
            (mainpc = "gather" /\ Launched /\ pc[i] \in GatedPcs) =>
                ENABLED TaskStep(i))

\* C12 witness: a batch of more URLs than slots whose first ten tasks all
\* took a slot (so that the others had to wait) is complete, and one of its
\* tasks went through two backoff sleeps
C12_Witness ==
    /\ mainpc = "normalize"
    /\ Len(urls) > C
    /\ ~should_skip(urls[1])
    /\ \A i \in Positions : pc[i] = "done"
    /\ \E i \in Positions : requests[i] = 3 /\ via[i] = "backoff"

Exceeds(c, size) == size.width > c.target_width \/ size.height > c.target_height
Fits(c, size) == size.width <= c.target_width /\ size.height <= c.target_height

\* C13 as stated: for every image wider or taller than the target box
\* process_image produces an image that fits the box, its width and height
\* being the input's scaled by min(target_width/width, target_height/height)
\* and truncated
C13_ResizedIntoBox ==
    (imgpc \in {"saved", "failed"} /\ Exceeds(config, img)) =>
        /\ imgpc = "saved"
        /\ Fits(config, saved)
        /\ saved = NewSize(config, img)

\* C14 as stated: process_image on an image that fits the target box leaves
\* its width and height unchanged
C14_NeverUpscales ==
    (imgpc = "saved" /\ Fits(config, img)) => saved = img

\* C15 as stated: an attempt whose staged file is below min_file_size ends
\* the task: it returns none and issues no further request
C15_SizeRejectionTerminal ==
    [][\A i \in Positions :
         (pc[i] = "settle" /\ ~LargeEnough(temp[TempPath(i)]) /\ pc'[i] # "settle") =>
             (pc'[i] = "done" /\ result'[i] = None /\ requests'[i] = requests[i])]_vars

\* C16 as stated: after a failed request or a failed transfer, the next
\* request of the task comes only out of the backoff sleep, and a task that
\* ends on such a failure has made 3 requests and returns none
C16_FailuresBackOff ==
    [][\A i \in Positions :
         /\ (pc[i] \in {"request", "stream", "backoff"} /\ requests'[i] = requests[i] + 1) =>
                pc[i] = "backoff"
         /\ (pc[i] \in {"request", "stream", "backoff"} /\ pc'[i] = "done") =>
                (result'[i] = None /\ requests[i] = 3)]_vars

\* the file of its size that rename_files keeps: none of that size is older
Earliest(f, fs) == \A g \in fs : g.size = f.size => f.mtime <= g.mtime
Kept(f, d) == \E h \in TargetFiles(d) : h.src = f.src /\ h.size = f.size

\* C17 as stated: of the target-format files of one size rename_files keeps
\* one that is the earliest (a file older than every other of its size is
\* kept, a file that is not an earliest one is deleted), and the files kept
\* are named keyword_1 .. keyword_N in ascending modification time
C17_EarliestKeptInOrder ==
    Renamed =>
        /\ \A f \in TargetFiles(before) :
              /\ (\A g \in TargetFiles(before) \ {f} :
                     g.size = f.size => f.mtime < g.mtime) => Kept(f, dir)
              /\ ~Earliest(f, TargetFiles(before)) => ~Kept(f, dir)
        /\ \A h \in TargetFiles(dir) :
              /\ h.name.kw
              /\ h.name.n \in 1..Cardinality(TargetFiles(dir))
              /\ \A k \in TargetFiles(dir) :
                    h.name.n < k.name.n => h.mtime <= k.mtime

\* C18: no two tasks of a batch have the same temp path, two tasks for one
\* URL included; the file a task writes to, measures and promotes is the one
\* it opened itself and holds what it wrote, and any file at its temp path
\* (the one its finally clause deletes) is its own
C18_OwnTempFile ==
    /\ \A i, j \in Positions : i # j => TempPath(i) # TempPath(j)
    /\ \A i \in Positions :
          /\ temp[TempPath(i)] # NoFile => writer[TempPath(i)] = i
          /\ pc[i] \in {"stream", "settle"} => temp[TempPath(i)] # NoFile
          /\ pc[i] = "stream" => temp[TempPath(i)] + left[i] \in server[i].bodies
          /\ pc[i] = "settle" => temp[TempPath(i)] \in server[i].bodies

\* C18 witness: two tasks for the same URL are both in the middle of writing
\* their temp files
C18_Witness ==
    \E i, j \in Positions :
        /\ i # j
        /\ urls[i] = urls[j]
        /\ pc[i] = "stream" /\ temp[TempPath(i)] > 0 /\ left[i] > 0
        /\ pc[j] = "stream" /\ temp[TempPath(j)] > 0 /\ left[j] > 0

Sizes(fs) == {f.size : f \in fs}

\* C19 as stated: rename_files leaves as many target-format files as there
\* were distinct sizes among those it found, and for every such size exactly
\* one file, holding the content of a file of that size it found
C19_SurvivorsPreserved ==
    Renamed =>
        /\ Cardinality(TargetFiles(dir)) = Cardinality(Sizes(TargetFiles(before)))
        /\ \A n \in Sizes(TargetFiles(before)) :
              /\ Cardinality({h \in TargetFiles(dir) : h.size = n}) = 1
              /\ \A h \in TargetFiles(dir) :
                    h.size = n =>
                        \E f \in TargetFiles(before) : f.size = n /\ f.src = h.src

\* C20: the free slots and the tasks that hold a slot always add up to C; a
\* task that has returned, by whatever path, holds none and waits for none;
\* once the batch is complete all C slots are free
C20_SlotsConserved ==
    /\ sem >= 0
    /\ sem + Cardinality(Holders) = C
    /\ \A i \in Positions : pc[i] = "done" => \A k \in 1..Len(waiters) : waiters[k] # i
    /\ \A k \in 1..Len(waiters) : pc[waiters[k]] = "acquire"
    /\ ~Fetching => (sem = C /\ Holders = {} /\ waiters = <<>>)

\* C20 witness: a batch of more URLs than slots is complete, all slots free,
\* after tasks left by each path: a skipped URL, a URL without a path (one
\* request, a file staged, none returned), a promotion that followed a size
\* rejection, and retries exhausted
C20_Witness ==
    /\ mainpc = "normalize"
    /\ sem = C
    /\ Len(urls) > C
    /\ \E i \in Positions : should_skip(urls[i]) /\ pc[i] = "done"
    /\ \E i \in Positions :
          urls[i].path = "" /\ requests[i] = 1 /\ staged[i] /\ result[i] = None
    /\ \E i \in Positions : result[i] # None /\ via[i] = "small"
    /\ \E i \in Positions : requests[i] = 3 /\ result[i] = None

====
